---- MODULE Spec2Model ----
\* Model of the NIST webbook scraper (scrap2.py): the batch of passes of the
\* module body, scrap_data, make_request_with_retry and scrap_inchi, and of
\* model/utils.py: set_logger and train_test_generator.
\* Strings that the code builds by concatenation are modelled as sequences of
\* string tokens ("C" + cas_id is <<"C", cas_id>>, "" is <<>>); a path is the
\* sequence of its components.
EXTENDS Integers, Sequences, FiniteSets, TLC

\* ---------------------------------------------------------------- bounds
MaxLen == 3        \* longest identifier list
MaxVer == 2        \* distinct payloads the server may hold for one key
MaxRuns == 2       \* calls of scrap_inchi, of set_logger, of scrap_data in KillSpec
MaxPar == 2        \* iterations of the scrap_data loop run side by side
MaxSamples == 6    \* most samples in X and y
MaxSplits == 6     \* largest n_splits passed to train_test_generator

\* ------------------------------------------------------- program constants
max_retries == 3   \* make_request_with_retry(url, params, max_retries=3, ...)
kfold_n_splits == 5   \* KFold(n_splits=5, shuffle=True, random_state=4)

Ids == {"64175", "67630"}
Types == {"IR", "Mass"}
VerName(n) == CASE n = 1 -> "v1" [] n = 2 -> "v2" [] n = 3 -> "v3" [] OTHER -> "vN"
Vers == {<<VerName(n)>> : n \in 1..MaxVer}

CasLists == UNION {[1..n -> Ids] : n \in 0..MaxLen}

\* args.save_dir
data_dir == <<"data">>

\* str.lower() on the category labels the script uses
Lower(s) == CASE s = "IR" -> "ir"
              [] s = "Mass" -> "mass"
              [] OTHER -> s

\* os.path.join(data_dir, params["Type"].lower(), "")
SpectraPath(params_) == data_dir \o <<Lower(params_["Type"])>>

\* variant: the identifier left out of the file name
Filename_NoId(spectra_path, cas_id) == spectra_path \o <<".jdx">>

\* os.path.join(spectra_path, cas_id + ".jdx")
Filename(spectra_path, cas_id) == spectra_path \o <<cas_id, ".jdx">>

AllPaths == {Filename(data_dir \o <<Lower(t)>>, i) : t \in Types, i \in Ids}

\* variant: the value stored under a key of another spelling
DictSet_OtherKey(d, k, v) == [x \in (DOMAIN d) \cup {"jcamp"} |-> IF x = "jcamp" THEN v ELSE d[x]]

\* params[k] = v on a dict
DictSet(d, k, v) == [x \in (DOMAIN d) \cup {k} |-> IF x = k THEN v ELSE d[x]]

\* ------------------------------------------------------------ the network
\* A body is a sequence of byte tokens <<"b", s>>; response.text decodes it.
Bytes(text) == [i \in DOMAIN text |-> <<"b", text[i]>>]
Decode(bytes) == [i \in DOMAIN bytes |-> bytes[i][2]]

\* "##TITLE=Spectrum not found.\n##END=\n"
NotFoundText == <<"##TITLE=Spectrum not found.", "##END=">>

\* what the server holds for a lookup key <<"C", id>>
PayloadText(key, ver) == <<"##TITLE=">> \o key \o ver \o <<"##END=">>
KeyOf(bytes) == <<Decode(bytes)[2], Decode(bytes)[3]>>

\* bodies the server may return for a request with lookup key `key`
Bodies(key) == {Bytes(NotFoundText)} \cup {Bytes(PayloadText(key, v)) : v \in Vers}

\* the body served for an InChI lookup; the value is a property of the
\* compound, so one body per key
InchiBody(key) == Bytes(<<"InChI=">> \o key)

\* the value None, and a response object holding a body
None == [none |-> TRUE, content |-> <<>>]
Response(body) == [none |-> FALSE, content |-> body]
Text(r) == Decode(r.content)

\* requests.get: a response, a Timeout, or another RequestException
Outcomes == {"response", "timeout", "error"}

VARIABLES
  pc,           \* position inside the running function
  fn,           \* the running function: "none", "scrap_data", "scrap_inchi"
  main,         \* position of the module body: "none", "InChi", "IR", "MS"
  args,         \* parsed command line toggles
  cas_ids,      \* the identifier list of the module body
  cas_ls,       \* argument of the running function
  params,       \* argument of the running function (mutated in place)
  idx,          \* position of the for loop in cas_ls
  retry_count,  \* make_request_with_retry
  response,     \* result of the request
  num_created,
  exists,       \* set of paths of the artifacts that exist
  content,      \* path -> body held by the file
  inchi,        \* rows of <root>/inchi.txt
  runs,         \* invocations so far, in the specifications that count them
  visited,      \* history: identifiers the running loop has reached
  outcomes,     \* history: outcomes of the attempts of the current request call
  sleeps,       \* history: time.sleep calls of the current request call
  called,       \* history: identifiers the running function made a network call for
  writes,       \* history: path -> number of times opened for writing
  got,          \* history: id -> non-sentinel bodies returned in this run
  res,          \* history: id -> what the iterations of this run ended in
  first,        \* history: the state the running function started in
  prev,         \* history: the last completed scrap_data run
  cas_file,     \* os.path.isfile(args.cas_list)
  out_dirs,     \* the directories that exist
  log_files,    \* the log files that exist
  level,        \* level of the root logger
  handlers,     \* handlers of the root logger
  model_dir,    \* argument of set_logger
  it,           \* the iterations of the scrap_data loop when run side by side
  kf            \* train_test_generator: its arguments and what it has yielded

vars == <<pc, fn, main, args, cas_ids, cas_ls, params, idx, retry_count,
          response, num_created, exists, content, inchi, runs, visited,
          outcomes, sleeps, called, writes, got, res, first, prev,
          cas_file, out_dirs, log_files, level, handlers, model_dir, it, kf>>

script == <<main, args, cas_ids>>
files == <<exists, content, writes>>
request == <<retry_count, response, outcomes, sleeps>>
startup == <<cas_file, out_dirs>>
logger == <<log_files, level, handlers, model_dir>>
others == <<startup, logger, it, kf>>

\* the directories set_logger is given: args.save_dir and './mcts_logs/'
ModelDirs == {data_dir, <<"mcts_logs">>}
NoIt == [i \in {} |-> 0]
NoKf == [n |-> 0, n_splits |-> 0, perm |-> <<>>, yielded |-> <<>>, pc |-> "idle"]

NoRes == [i \in Ids |-> {}]

InitCommon ==
  /\ pc = "idle" /\ fn = "none" /\ main = "none"
  /\ args = [scrap_InChi |-> "<default>", scrap_IR |-> "<default>", scrap_MS |-> "<default>"]
  /\ cas_ids = <<>> /\ cas_ls = <<>>
  /\ params = [x \in {} |-> 0]
  /\ idx = 1 /\ retry_count = 0 /\ response = None /\ num_created = 0
  /\ exists = {} /\ content = [p \in AllPaths |-> <<>>]
  /\ inchi = <<>>
  /\ runs = 0
  /\ visited = <<>> /\ outcomes = <<>> /\ sleeps = 0
  /\ called = {} /\ writes = [p \in AllPaths |-> 0]
  /\ got = NoRes /\ res = NoRes
  /\ first = [exists |-> {}, inchi |-> <<>>]
  /\ prev = [ls |-> <<>>, type |-> "", res |-> NoRes]
  /\ log_files = {} /\ level = "WARNING" /\ handlers = <<>> /\ model_dir = <<>>
  /\ it = NoIt /\ kf = NoKf

\* the functions are called with the input table and the output directory
\* in place
Init == InitCommon /\ cas_file = TRUE /\ out_dirs = {data_dir}

\* the script is started: the input table and the directories may be missing
ScriptInit == InitCommon /\ cas_file \in BOOLEAN /\ out_dirs \in SUBSET ModelDirs

\* set_logger is called: its directory may be missing
LoggerInit == InitCommon /\ cas_file = TRUE /\ out_dirs \in SUBSET ModelDirs

\* ------------------------------------------------------ pieces of the code
\* variants of os.path.exists: a test that never succeeds, and a test
\* against the directory listing taken when the function started
os_path_exists_Never(path) == FALSE
os_path_exists_Cached(path) == path \in first.exists

\* os.path.exists(filename)
os_path_exists(path) == path \in exists

\* variant: the lookup key without its prefix
LookupKey_NoPrefix(cas_id) == <<cas_id>>

\* the lookup key of scrap_data: "C" + cas_id
LookupKey(cas_id) == <<"C", cas_id>>

\* variant: one pass too many
WhileCond_OffByOne(rc) == rc <= max_retries

\* while retry_count < max_retries
WhileCond(rc) == rc < max_retries

\* variants: no except clause for RequestException; every exception retried
ExceptClause_Uncaught(outcome) == CASE outcome = "response" -> "return_response"
                                    [] outcome = "timeout" -> "sleep_retry"
                                    [] outcome = "error" -> "propagate"
ExceptClause_RetryAll(outcome) == CASE outcome = "response" -> "return_response"
                                    [] outcome = "timeout" -> "sleep_retry"
                                    [] outcome = "error" -> "sleep_retry"

\* the try/except of make_request_with_retry: what each outcome of
\* requests.get leads to
ExceptClause(outcome) == CASE outcome = "response" -> "return_response"
                           [] outcome = "timeout" -> "sleep_retry"
                           [] outcome = "error" -> "return_none"

\* variant: the literal without its ##END= line
IsNotFound_NoEnd(r) == Text(r) = <<"##TITLE=Spectrum not found.">>

\* response.text == "##TITLE=Spectrum not found.\n##END=\n"
IsNotFound(r) == Text(r) = NotFoundText

\* truth value of a toggle: the argparse default when the flag is absent,
\* else the string given on the command line (no type= is declared)
Defaults == [scrap_InChi |-> TRUE, scrap_IR |-> TRUE, scrap_MS |-> FALSE]
ArgValues == {"<default>", "False", ""}
Truthy(name) == IF args[name] = "<default>" THEN Defaults[name] ELSE args[name] # ""

\* ------------------------------------------------------------ entry points
NoParams == [x \in {} |-> 0]
IRParams == [JCAMP |-> <<>>, Type |-> "IR", Index |-> 0]
MassParams == [JCAMP |-> <<>>, Index |-> 0, Type |-> "Mass"]

Enter(f, ls, p) ==
  /\ fn' = f /\ cas_ls' = ls /\ params' = p
  /\ idx' = 1 /\ num_created' = 0 /\ retry_count' = 0 /\ response' = None
  /\ visited' = <<>> /\ outcomes' = <<>> /\ sleeps' = 0
  /\ called' = {} /\ got' = NoRes /\ res' = NoRes
  /\ first' = [exists |-> exists, inchi |-> inchi]
  /\ UNCHANGED <<files, prev>>

\* scrap_data, lines 35-39 (the category directory is created when absent)
EnterScrapData(ls, p) == Enter("scrap_data", ls, p) /\ pc' = "for" /\ UNCHANGED inchi

\* scrap_inchi, lines 108-112: open in append mode and write the header row
EnterScrapInchi(ls, p) ==
  /\ Enter("scrap_inchi", ls, p) /\ pc' = "inchi_for"
  /\ inchi' = Append(inchi, <<"cas_id", "inchi">>)

\* a caller invokes scrap_data(cas_ls, params, data_dir), any number of times
CallScrapData ==
  /\ UNCHANGED others
  /\ pc = "idle"
  /\ \E ls \in CasLists, p \in {IRParams, MassParams} : EnterScrapData(ls, p)
  /\ UNCHANGED <<script, runs>>

\* a first run of scrap_data ...
CallFirst ==
  /\ UNCHANGED others
  /\ pc = "idle" /\ runs = 0
  /\ \E ls \in CasLists, p \in {IRParams, MassParams} : EnterScrapData(ls, p)
  /\ runs' = 1
  /\ UNCHANGED script

\* ... and the same call made again after it has returned
CallAgain ==
  /\ UNCHANGED others
  /\ pc = "idle" /\ runs = 1
  /\ EnterScrapData(prev.ls, IF prev.type = "IR" THEN IRParams ELSE MassParams)
  /\ runs' = 2
  /\ UNCHANGED script

\* a caller invokes scrap_data up to MaxRuns times
CallCounted ==
  /\ UNCHANGED others
  /\ pc = "idle" /\ runs < MaxRuns
  /\ \E ls \in CasLists, p \in {IRParams, MassParams} : EnterScrapData(ls, p)
  /\ runs' = runs + 1
  /\ UNCHANGED script

\* a caller invokes scrap_inchi(cas_ls, params, data_dir)
CallScrapInchi ==
  /\ UNCHANGED others
  /\ pc = "idle" /\ runs < MaxRuns
  /\ \E ls \in CasLists : EnterScrapInchi(ls, NoParams)
  /\ runs' = runs + 1
  /\ UNCHANGED script

\* the locals of a function are gone once it has returned or raised
Leave ==
  /\ fn' = "none" /\ cas_ls' = <<>> /\ params' = NoParams
  /\ idx' = 1 /\ num_created' = 0 /\ retry_count' = 0 /\ response' = None
  /\ visited' = <<>> /\ outcomes' = <<>> /\ sleeps' = 0
  /\ called' = {} /\ got' = NoRes /\ res' = NoRes
  /\ first' = [exists |-> {}, inchi |-> <<>>]
  /\ UNCHANGED <<files, inchi, runs>>

\* one execution of the script: the passes of the module body, from the
\* loaded table on (lines 160-162)
Batch ==
  /\ UNCHANGED others
  /\ pc = "idle" /\ runs = 0
  /\ \E ls \in CasLists : cas_ids' = ls
  /\ \E a \in [{"scrap_InChi", "scrap_IR", "scrap_MS"} -> ArgValues] : args' = a
  /\ main' = "InChi" /\ pc' = "main"
  /\ runs' = runs + 1
  /\ UNCHANGED <<fn, cas_ls, params, idx, num_created, request, files, inchi,
                 visited, called, got, res, first, prev>>

\* the module body moves on without calling anything
Pass(m) ==
  /\ main' = m /\ pc' = IF m = "none" THEN "idle" ELSE "main"
  /\ UNCHANGED <<fn, cas_ls, params, idx, num_created, request, files, inchi,
                 visited, called, got, res, first, prev>>

\* lines 163-165
MainInChi ==
  /\ UNCHANGED others
  /\ pc = "main" /\ main = "InChi"
  /\ IF Truthy("scrap_InChi")
       THEN EnterScrapInchi(cas_ids, NoParams) /\ UNCHANGED main
       ELSE Pass("IR")
  /\ UNCHANGED <<args, cas_ids, runs>>

\* lines 168-170
MainIR ==
  /\ UNCHANGED others
  /\ pc = "main" /\ main = "IR"
  /\ IF Truthy("scrap_IR")
       THEN EnterScrapData(cas_ids, IRParams) /\ UNCHANGED main
       ELSE Pass("MS")
  /\ UNCHANGED <<args, cas_ids, runs>>

\* lines 174-176; the script ends after the Mass pass
MainMS ==
  /\ UNCHANGED others
  /\ pc = "main" /\ main = "MS"
  /\ IF Truthy("scrap_MS")
       THEN EnterScrapData(cas_ids, MassParams) /\ UNCHANGED main
       ELSE Pass("none")
  /\ UNCHANGED <<args, cas_ids, runs>>

NextPass(m) == CASE m = "InChi" -> "IR" [] m = "IR" -> "MS" [] OTHER -> "none"

\* the running function returns to its caller
ReturnTo(p) ==
  /\ UNCHANGED others
  /\ pc = "return"
  /\ main' = NextPass(main)
  /\ pc' = IF NextPass(main) = "none" THEN "idle" ELSE "main"
  /\ prev' = p
  /\ Leave
  /\ UNCHANGED <<args, cas_ids>>

Return == ReturnTo(prev)

\* the same, the run being noted for the call that repeats it
ReturnNoted ==
  /\ fn = "scrap_data"
  /\ ReturnTo([ls |-> cas_ls, type |-> params["Type"], res |-> res])

\* an exception nobody catches ends the caller (the script: the process)
Abort ==
  /\ UNCHANGED others
  /\ pc = "raised"
  /\ pc' = "idle" /\ main' = "none"
  /\ Leave
  /\ UNCHANGED <<args, cas_ids, prev>>

\* -------------------------------------------------------------- scrap_data
cas_id == cas_ls[idx]
filename == Filename(SpectraPath(params), cas_id)
Note(r, i, what) == [r EXCEPT ![i] = @ \cup {what}]

\* the for loop moves to the next identifier; response and the locals of the
\* finished request are dead from here on
Continue ==
  /\ idx' = idx + 1 /\ pc' = "for"
  /\ retry_count' = 0 /\ response' = None /\ outcomes' = <<>> /\ sleeps' = 0

\* line 40: the list is exhausted, the function returns
ForDone ==
  /\ UNCHANGED others
  /\ fn = "scrap_data" /\ pc = "for" /\ idx > Len(cas_ls)
  /\ pc' = "return"
  /\ UNCHANGED <<fn, script, cas_ls, params, idx, num_created, request, files,
                 inchi, runs, visited, called, got, res, first, prev>>

\* lines 40-44: the destination exists, continue with the next identifier
Skip ==
  /\ UNCHANGED others
  /\ fn = "scrap_data" /\ pc = "for" /\ idx <= Len(cas_ls)
  /\ os_path_exists(filename)
  /\ Continue
  /\ visited' = Append(visited, cas_id)
  /\ res' = Note(res, cas_id, "skipped")
  /\ UNCHANGED <<fn, script, cas_ls, params, num_created, files, inchi, runs,
                 called, got, first, prev>>

\* lines 40-47 and 14: set the lookup key and enter make_request_with_retry
Request ==
  /\ UNCHANGED others
  /\ fn = "scrap_data" /\ pc = "for" /\ idx <= Len(cas_ls)
  /\ ~os_path_exists(filename)
  /\ params' = DictSet(params, "JCAMP", LookupKey(cas_id))
  /\ retry_count' = 0
  /\ pc' = "while"
  /\ visited' = Append(visited, cas_id)
  /\ outcomes' = <<>> /\ sleeps' = 0
  /\ UNCHANGED <<fn, script, cas_ls, idx, response, num_created, files, inchi,
                 runs, called, got, res, first, prev>>

\* lines 15-27: one pass of the while loop, one requests.get
Attempt ==
  /\ UNCHANGED others
  /\ fn = "scrap_data" /\ pc = "while" /\ WhileCond(retry_count)
  /\ \E o \in Outcomes, body \in Bodies(params["JCAMP"]) :
       /\ outcomes' = Append(outcomes, o)
       /\ called' = called \cup {cas_id}
       /\ got' = IF o = "response" /\ body # Bytes(NotFoundText)
                   THEN Note(got, cas_id, body) ELSE got
       /\ CASE ExceptClause(o) = "return_response" ->
                 /\ response' = Response(body) /\ pc' = "check"
                 /\ UNCHANGED <<retry_count, sleeps>>
            [] ExceptClause(o) = "sleep_retry" ->
                 /\ sleeps' = sleeps + 1 /\ retry_count' = retry_count + 1
                 /\ UNCHANGED <<pc, response>>
            [] ExceptClause(o) = "return_none" ->
                 /\ response' = None /\ pc' = "check"
                 /\ UNCHANGED <<retry_count, sleeps>>
            [] OTHER ->
                 /\ pc' = "raised"
                 /\ UNCHANGED <<response, retry_count, sleeps>>
  /\ UNCHANGED <<fn, script, cas_ls, params, idx, num_created, files, inchi,
                 runs, visited, res, first, prev>>

\* lines 15 and 28-31: the retries are used up
Exhausted ==
  /\ UNCHANGED others
  /\ fn = "scrap_data" /\ pc = "while" /\ ~WhileCond(retry_count)
  /\ response' = None /\ pc' = "check"
  /\ UNCHANGED <<fn, script, cas_ls, params, idx, retry_count, num_created,
                 files, inchi, runs, visited, outcomes, sleeps, called, got,
                 res, first, prev>>

\* lines 48-49
NoResponse ==
  /\ UNCHANGED others
  /\ fn = "scrap_data" /\ pc = "check" /\ response.none
  /\ Continue
  /\ res' = Note(res, cas_id, "noresponse")
  /\ UNCHANGED <<fn, script, cas_ls, params, num_created, files, inchi, runs,
                 visited, called, got, first, prev>>

\* lines 51-52
NotFound ==
  /\ UNCHANGED others
  /\ fn = "scrap_data" /\ pc = "check" /\ ~response.none
  /\ IsNotFound(response)
  /\ Continue
  /\ res' = Note(res, cas_id, "sentinel")
  /\ UNCHANGED <<fn, script, cas_ls, params, num_created, files, inchi, runs,
                 visited, called, got, first, prev>>

\* lines 54-57
Count ==
  /\ UNCHANGED others
  /\ fn = "scrap_data" /\ pc = "check" /\ ~response.none
  /\ ~IsNotFound(response)
  /\ num_created' = num_created + 1
  /\ pc' = "open"
  /\ UNCHANGED <<fn, script, cas_ls, params, idx, request, files, inchi, runs,
                 visited, called, got, res, first, prev>>

\* line 58: open(filename, "wb") creates or truncates the file
Open ==
  /\ UNCHANGED others
  /\ fn = "scrap_data" /\ pc = "open"
  /\ exists' = exists \cup {filename}
  /\ content' = [content EXCEPT ![filename] = <<>>]
  /\ writes' = [writes EXCEPT ![filename] = @ + 1]
  /\ pc' = "write"
  /\ UNCHANGED <<fn, script, cas_ls, params, idx, num_created, request, inchi,
                 runs, visited, called, got, res, first, prev>>

\* line 59: data.write(response.content), close, next identifier
Write ==
  /\ UNCHANGED others
  /\ fn = "scrap_data" /\ pc = "write"
  /\ content' = [content EXCEPT ![filename] = response.content]
  /\ Continue
  /\ res' = Note(res, cas_id, "artifact")
  /\ UNCHANGED <<fn, script, cas_ls, params, num_created, exists, writes,
                 inchi, runs, visited, called, got, first, prev>>

\* line 59 fails part way (disk full, I/O error): the with block closes the
\* file holding what was written so far; scrap_data catches nothing
WriteFail ==
  /\ UNCHANGED others
  /\ fn = "scrap_data" /\ pc = "write"
  /\ \E k \in 0..(Len(response.content) - 1) :
       content' = [content EXCEPT ![filename] = SubSeq(response.content, 1, k)]
  /\ pc' = "raised"
  /\ UNCHANGED <<fn, script, cas_ls, params, idx, num_created, request, exists,
                 writes, inchi, runs, visited, called, got, res, first, prev>>

\* the process is terminated at any step of scrap_data; the files stay as
\* they are
Kill ==
  /\ UNCHANGED others
  /\ fn = "scrap_data"
  /\ pc' = "idle" /\ main' = "none"
  /\ Leave
  /\ UNCHANGED <<args, cas_ids, prev>>

\* ------------------------------------------------------------- scrap_inchi
\* "{}\t{}\n".format(cas_id, response.content.decode("utf-8"))
Row(id, r) == <<id, Text(r)>>

\* line 114: the list is exhausted; the with block closes the file
InchiDone ==
  /\ UNCHANGED others
  /\ fn = "scrap_inchi" /\ pc = "inchi_for" /\ idx > Len(cas_ls)
  /\ pc' = "return"
  /\ UNCHANGED <<fn, script, cas_ls, params, idx, num_created, request, files,
                 inchi, runs, visited, called, got, res, first, prev>>

\* lines 114-125: one iteration; requests.get is called bare, so a Timeout
\* or any other RequestException leaves the function
InchiIter ==
  /\ UNCHANGED others
  /\ fn = "scrap_inchi" /\ pc = "inchi_for" /\ idx <= Len(cas_ls)
  /\ params' = DictSet(params, "GetInChI", LookupKey(cas_id))
  /\ visited' = Append(visited, cas_id)
  /\ called' = called \cup {cas_id}
  /\ \E o \in Outcomes :
       IF o = "response"
         THEN /\ num_created' = num_created + 1
              /\ inchi' = Append(inchi, Row(cas_id, Response(InchiBody(params'["GetInChI"]))))
              /\ idx' = idx + 1
              /\ UNCHANGED pc
         ELSE /\ pc' = "raised"
              /\ UNCHANGED <<num_created, inchi, idx>>
  /\ UNCHANGED <<fn, script, cas_ls, request, files, runs, got, res, first, prev>>

\* ------------------------------------- scrap_data, the loop run in parallel
\* The body of the for loop (lines 41-59) run once per identifier of the list,
\* the iterations interleaved without locking.  Each iteration has its own
\* cas_id, filename, response and retry_count; params, num_created and the
\* file system are the ones of the function, shared by all.
ParFilename(i) == Filename(SpectraPath(params), cas_ls[i])
ItSet(i, r) == [it EXCEPT ![i] = r]
AllDone == \A i \in DOMAIN it : it[i].pc = "done"

\* scrap_data(cas_ls, params, data_dir) up to the loop
ParStart ==
  /\ pc = "idle" /\ runs = 0
  /\ \E n \in 1..MaxPar, p \in {IRParams, MassParams} : \E ls \in [1..n -> Ids] :
       /\ cas_ls' = ls /\ params' = p
       /\ it' = [i \in 1..n |-> [pc |-> "for", retry_count |-> 0, response |-> None]]
  /\ fn' = "scrap_data" /\ pc' = "par" /\ runs' = 1
  /\ UNCHANGED <<script, idx, num_created, request, files, inchi, visited,
                 called, got, res, first, prev, startup, logger, kf>>

\* lines 41-44
ParSkip ==
  \E i \in DOMAIN it :
    /\ pc = "par" /\ it[i].pc = "for"
    /\ os_path_exists(ParFilename(i))
    /\ it' = ItSet(i, [pc |-> "done", retry_count |-> 0, response |-> None])
    /\ UNCHANGED <<pc, fn, script, cas_ls, params, idx, num_created, request,
                   files, inchi, runs, visited, called, got, res, first, prev,
                   startup, logger, kf>>

\* lines 41-47 and 14: the shared mapping is written in place
ParRequest ==
  \E i \in DOMAIN it :
    /\ pc = "par" /\ it[i].pc = "for"
    /\ ~os_path_exists(ParFilename(i))
    /\ params' = DictSet(params, "JCAMP", LookupKey(cas_ls[i]))
    /\ it' = ItSet(i, [it[i] EXCEPT !.pc = "while", !.retry_count = 0])
    /\ UNCHANGED <<pc, fn, script, cas_ls, idx, num_created, request, files,
                   inchi, runs, visited, called, got, res, first, prev, startup,
                   logger, kf>>

\* lines 15-27: requests.get(url, params=params) reads the mapping as it is
\* at the time of the call; retry_count is dead once the call has returned
ParAttempt ==
  \E i \in DOMAIN it :
    /\ pc = "par" /\ it[i].pc = "while" /\ WhileCond(it[i].retry_count)
    /\ \E o \in Outcomes, body \in Bodies(params["JCAMP"]) :
         it' = ItSet(i,
               CASE ExceptClause(o) = "return_response" ->
                      [pc |-> "check", retry_count |-> 0, response |-> Response(body)]
                 [] ExceptClause(o) = "sleep_retry" ->
                      [it[i] EXCEPT !.retry_count = @ + 1]
                 [] OTHER ->
                      [pc |-> "check", retry_count |-> 0, response |-> None])
    /\ UNCHANGED <<pc, fn, script, cas_ls, params, idx, num_created, request,
                   files, inchi, runs, visited, called, got, res, first, prev,
                   startup, logger, kf>>

\* lines 15 and 28-31
ParExhausted ==
  \E i \in DOMAIN it :
    /\ pc = "par" /\ it[i].pc = "while" /\ ~WhileCond(it[i].retry_count)
    /\ it' = ItSet(i, [pc |-> "check", retry_count |-> 0, response |-> None])
    /\ UNCHANGED <<pc, fn, script, cas_ls, params, idx, num_created, request,
                   files, inchi, runs, visited, called, got, res, first, prev,
                   startup, logger, kf>>

\* lines 48-52: nothing to store, the iteration ends
ParContinue ==
  \E i \in DOMAIN it :
    /\ pc = "par" /\ it[i].pc = "check"
    /\ it[i].response.none \/ IsNotFound(it[i].response)
    /\ it' = ItSet(i, [pc |-> "done", retry_count |-> 0, response |-> None])
    /\ UNCHANGED <<pc, fn, script, cas_ls, params, idx, num_created, request,
                   files, inchi, runs, visited, called, got, res, first, prev,
                   startup, logger, kf>>

\* lines 48-58: the spectrum is counted and its file opened
ParOpen ==
  \E i \in DOMAIN it :
    /\ pc = "par" /\ it[i].pc = "check"
    /\ ~it[i].response.none /\ ~IsNotFound(it[i].response)
    /\ num_created' = num_created + 1
    /\ exists' = exists \cup {ParFilename(i)}
    /\ content' = [content EXCEPT ![ParFilename(i)] = <<>>]
    /\ writes' = [writes EXCEPT ![ParFilename(i)] = @ + 1]
    /\ it' = ItSet(i, [it[i] EXCEPT !.pc = "write"])
    /\ UNCHANGED <<pc, fn, script, cas_ls, params, idx, request, inchi, runs,
                   visited, called, got, res, first, prev, startup, logger, kf>>

\* line 59; the with block closes the file and the iteration ends
ParWrite ==
  \E i \in DOMAIN it :
    /\ pc = "par" /\ it[i].pc = "write"
    /\ content' = [content EXCEPT ![ParFilename(i)] = it[i].response.content]
    /\ it' = ItSet(i, [pc |-> "done", retry_count |-> 0, response |-> None])
    /\ UNCHANGED <<pc, fn, script, cas_ls, params, idx, num_created, request,
                   exists, writes, inchi, runs, visited, called, got, res, first,
                   prev, startup, logger, kf>>

\* every iteration has ended: the function returns
ParReturn ==
  /\ pc = "par" /\ AllDone
  /\ pc' = "idle" /\ it' = NoIt
  /\ Leave
  /\ UNCHANGED <<script, prev, startup, logger, kf>>

\* -------------------------------------------------- model/utils.set_logger
\* def set_logger(model_dir): the parameters a call has to bind
SetLoggerParams == <<"model_dir">>

\* a call with positional arguments binds when there is one per parameter
\* (no defaults, no *args), else Python raises TypeError
Binds(parameters, arguments) == Len(arguments) = Len(parameters)

\* os.path.join(model_dir, 'generation.log')
LogPath(dir) == dir \o <<"generation.log">>

\* variant: the guard left out
NoHandlers_Always(h) == TRUE

\* if not logger.handlers
NoHandlers(h) == h = <<>>

\* a caller invokes set_logger(model_dir)
CallSetLogger ==
  /\ pc = "idle" /\ runs < MaxRuns
  /\ \E d \in ModelDirs : model_dir' = d
  /\ fn' = "set_logger" /\ pc' = "sl_level"
  /\ runs' = runs + 1
  /\ UNCHANGED <<script, cas_ls, params, idx, num_created, request, files,
                 inchi, visited, called, got, res, first, prev, startup,
                 log_files, level, handlers, it, kf>>

\* lines 15-16
SetLevel ==
  /\ fn = "set_logger" /\ pc = "sl_level"
  /\ level' = "INFO"
  /\ pc' = "sl_if"
  /\ UNCHANGED <<fn, script, cas_ls, params, idx, num_created, request, files,
                 inchi, runs, visited, called, got, res, first, prev, startup,
                 log_files, handlers, model_dir, it, kf>>

\* line 19, and line 33 when the logger has handlers
IfHandlers ==
  /\ fn = "set_logger" /\ pc = "sl_if"
  /\ pc' = IF NoHandlers(handlers) THEN "sl_fh" ELSE "return"
  /\ UNCHANGED <<fn, script, cas_ls, params, idx, num_created, request, files,
                 inchi, runs, visited, called, got, res, first, prev, startup,
                 logger, it, kf>>

\* lines 22-25: FileHandler opens its file at once, which fails when the
\* directory is missing
NewFileHandler ==
  /\ fn = "set_logger" /\ pc = "sl_fh"
  /\ IF model_dir \in out_dirs
       THEN /\ log_files' = log_files \cup {LogPath(model_dir)}
            /\ handlers' = Append(handlers, [kind |-> "FileHandler", level |-> "DEBUG",
                                             file |-> LogPath(model_dir)])
            /\ pc' = "sl_sh"
       ELSE /\ pc' = "raised"
            /\ UNCHANGED <<log_files, handlers>>
  /\ UNCHANGED <<fn, script, cas_ls, params, idx, num_created, request, files,
                 inchi, runs, visited, called, got, res, first, prev, startup,
                 level, model_dir, it, kf>>

\* lines 28-31
NewStreamHandler ==
  /\ fn = "set_logger" /\ pc = "sl_sh"
  /\ handlers' = Append(handlers, [kind |-> "StreamHandler", level |-> "INFO",
                                   file |-> <<"stderr">>])
  /\ pc' = "return"
  /\ UNCHANGED <<fn, script, cas_ls, params, idx, num_created, request, files,
                 inchi, runs, visited, called, got, res, first, prev, startup,
                 log_files, level, model_dir, it, kf>>

\* line 33: back in the caller; the script goes on to load the table
LoggerReturn ==
  /\ fn = "set_logger" /\ pc = "return"
  /\ fn' = "none"
  /\ pc' = IF main = "startup" THEN "load" ELSE "idle"
  /\ UNCHANGED <<script, cas_ls, params, idx, num_created, request, files,
                 inchi, runs, visited, called, got, res, first, prev, startup,
                 logger, it, kf>>

\* ----------------------------------------- model/utils.train_test_generator
\* The samples of X and y are the indices 0..n-1.  KFold(shuffle=True,
\* random_state=4) permutes them with a seeded generator: the permutation is
\* fixed by the seed and n, and is modelled as any permutation.
Samples(n) == 0..(n - 1)
Perms(n) == {f \in [Samples(n) -> Samples(n)] : \A i, j \in Samples(n) : f[i] = f[j] => i = j}

\* KFold: the first n % k folds have n // k + 1 samples, the others n // k
FoldStart(n, k, f) == f * (n \div k) + (IF f < n % k THEN f ELSE n % k)
ValIndex(n, k, perm, f) == {perm[j] : j \in FoldStart(n, k, f)..(FoldStart(n, k, f + 1) - 1)}
TrainIndex(n, k, perm, f) == Samples(n) \ ValIndex(n, k, perm, f)

KfFrame == <<pc, fn, script, cas_ls, params, idx, num_created, request, files,
             inchi, runs, visited, called, got, res, first, prev, startup,
             logger, it>>

\* a caller invokes train_test_generator(X, y, n_splits) and iterates over it
KfCall ==
  /\ pc = "idle" /\ kf.pc \in {"idle", "done", "raised"}
  /\ \E n \in 0..MaxSamples, k \in 2..MaxSplits :
       kf' = [n |-> n, n_splits |-> k, perm |-> <<>>, yielded |-> <<>>, pc |-> "split"]
  /\ UNCHANGED KfFrame

\* lines 36-38: the KFold is built with n_splits=5 and split(X, y) is
\* entered; it raises ValueError when there are fewer samples than splits
KfSplit ==
  /\ kf.pc = "split"
  /\ IF kf.n < kfold_n_splits
       THEN kf' = [kf EXCEPT !.pc = "raised"]
       ELSE \E perm \in Perms(kf.n) : kf' = [kf EXCEPT !.perm = perm, !.pc = "fold"]
  /\ UNCHANGED KfFrame

\* lines 38-42: one fold, one yield
KfYield ==
  /\ kf.pc = "fold" /\ Len(kf.yielded) < kfold_n_splits
  /\ kf' = [kf EXCEPT !.yielded =
              Append(@, [train |-> TrainIndex(kf.n, kfold_n_splits, kf.perm, Len(@)),
                         val |-> ValIndex(kf.n, kfold_n_splits, kf.perm, Len(@))])]
  /\ UNCHANGED KfFrame

\* line 38: split is exhausted, the generator ends
KfDone ==
  /\ kf.pc = "fold" /\ Len(kf.yielded) = kfold_n_splits
  /\ kf' = [kf EXCEPT !.pc = "done"]
  /\ UNCHANGED KfFrame

\* ------------------------------------------------- the start of the script
\* variant: the assert statement not executed
AssertHolds_Stripped(condition) == TRUE

\* assert os.path.isfile(args.cas_list)
AssertHolds(condition) == condition

\* lines 128-143: the command line is parsed
Start ==
  /\ pc = "idle" /\ runs = 0
  /\ \E a \in [{"scrap_InChi", "scrap_IR", "scrap_MS"} -> ArgValues] : args' = a
  /\ main' = "startup" /\ pc' = "assert"
  /\ runs' = 1
  /\ UNCHANGED <<fn, cas_ids, cas_ls, params, idx, num_created, request, files,
                 inchi, visited, called, got, res, first, prev, others>>

\* line 145
AssertFile ==
  /\ main = "startup" /\ pc = "assert"
  /\ pc' = IF AssertHolds(cas_file) THEN "makedirs" ELSE "raised"
  /\ UNCHANGED <<fn, script, cas_ls, params, idx, num_created, request, files,
                 inchi, runs, visited, called, got, res, first, prev, others>>

\* lines 147-149
MakeDirs ==
  /\ main = "startup" /\ pc = "makedirs"
  /\ out_dirs' = out_dirs \cup {data_dir}
  /\ pc' = "call_set_logger"
  /\ UNCHANGED <<fn, script, cas_ls, params, idx, num_created, request, files,
                 inchi, runs, visited, called, got, res, first, prev, cas_file,
                 logger, it, kf>>

\* line 151: set_logger(data_dir, "scrap.log")
StartLogger ==
  /\ main = "startup" /\ pc = "call_set_logger"
  /\ IF Binds(SetLoggerParams, <<data_dir, "scrap.log">>)
       THEN fn' = "set_logger" /\ model_dir' = data_dir /\ pc' = "sl_level"
       ELSE pc' = "raised" /\ UNCHANGED <<fn, model_dir>>
  /\ UNCHANGED <<script, cas_ls, params, idx, num_created, request, files,
                 inchi, runs, visited, called, got, res, first, prev, startup,
                 log_files, level, handlers, it, kf>>

\* --------------------------------------------------------- specifications
DataSteps ==
  \/ ForDone \/ Skip \/ Request \/ Attempt \/ Exhausted
  \/ NoResponse \/ NotFound \/ Count \/ Open \/ Write

InchiSteps == InchiDone \/ InchiIter \/ Abort

\* scrap_data called any number of times, with any lists and categories
Next == CallScrapData \/ DataSteps \/ Return

Spec == Init /\ [][Next]_vars

\* a run of scrap_data and its repetition
NextRerun == CallFirst \/ CallAgain \/ DataSteps \/ ReturnNoted

RerunSpec == Init /\ [][NextRerun]_vars

\* scrap_inchi called up to MaxRuns times
NextInchi == CallScrapInchi \/ InchiSteps \/ Return

InchiSpec == Init /\ [][NextInchi]_vars

\* one execution of the script from a fresh output directory
NextBatch ==
  \/ Batch \/ MainInChi \/ MainIR \/ MainMS
  \/ DataSteps \/ InchiSteps \/ Return

BatchSpec == Init /\ [][NextBatch]_vars

\* scrap_data called up to MaxRuns times, the process being terminated or a
\* write failing at any step
NextKill == CallCounted \/ DataSteps \/ Return \/ WriteFail \/ Kill \/ Abort

KillSpec == Init /\ [][NextKill]_vars

\* one scrap_data pass with the iterations of its loop run side by side
NextPar ==
  \/ ParStart \/ ParSkip \/ ParRequest \/ ParAttempt \/ ParExhausted
  \/ ParContinue \/ ParOpen \/ ParWrite \/ ParReturn

ParSpec == Init /\ [][NextPar]_vars

\* train_test_generator called any number of times
NextKFold == KfCall \/ KfSplit \/ KfYield \/ KfDone

KFoldSpec == Init /\ [][NextKFold]_vars

\* set_logger called up to MaxRuns times
NextLogger ==
  \/ CallSetLogger \/ SetLevel \/ IfHandlers \/ NewFileHandler
  \/ NewStreamHandler \/ LoggerReturn \/ Abort

LoggerSpec == LoggerInit /\ [][NextLogger]_vars

\* the script from its start to the call of set_logger, which ends it
NextScript == Start \/ AssertFile \/ MakeDirs \/ StartLogger \/ Abort

ScriptSpec == ScriptInit /\ [][NextScript]_vars

\* ------------------------------------------------------------------ claims
InData == fn = "scrap_data"
AllTimeouts == outcomes # <<>> /\ \A i \in DOMAIN outcomes : outcomes[i] = "timeout"
HasError == \E i \in DOMAIN outcomes : outcomes[i] = "error"

\* <root>/<category lower-cased>/<identifier>.jdx, written out
ArtifactPath(type, id) == <<"data", IF type = "IR" THEN "ir" ELSE "mass", id, ".jdx">>

\* C1: whatever the network does, scrap_data never raises, reaches the
\* identifiers of its list one by one in list order, and has reached all of
\* them when it returns.
C1_EveryIdentifierProcessed ==
  InData =>
    /\ pc # "raised"
    /\ Len(visited) <= Len(cas_ls)
    /\ visited = SubSeq(cas_ls, 1, Len(visited))
    /\ Len(visited) = (IF pc \in {"for", "return"} THEN idx - 1 ELSE idx)
    /\ (pc = "return" => visited = cas_ls)

\* a run whose first identifier failed on the network and whose second
\* identifier was handled all the same
C1_Witness ==
  /\ InData /\ pc = "return" /\ Len(cas_ls) = 2 /\ cas_ls[1] # cas_ls[2]
  /\ res[cas_ls[1]] = {"noresponse"}
  /\ cas_ls[2] \in called

\* C2: when the loop reaches an identifier whose destination file exists, the
\* step makes no network call, leaves every artifact as it is and moves on to
\* the next identifier.
C2_ExistingArtifactUntouched ==
  [][(InData /\ pc = "for" /\ idx <= Len(cas_ls)
        /\ ArtifactPath(params["Type"], cas_ls[idx]) \in exists)
      => /\ called' = called
         /\ exists' = exists /\ content' = content /\ writes' = writes
         /\ pc' = "for" /\ idx' = idx + 1]_vars

\* the loop has just passed an identifier whose artifact was there when the
\* function was called
C2_Witness ==
  /\ InData /\ pc = "for" /\ idx > 1
  /\ ArtifactPath(params["Type"], cas_ls[idx - 1]) \in first.exists
  /\ cas_ls[idx - 1] \notin called

\* C3: over all runs a destination path is opened for writing at most once,
\* and a file that has been written keeps its content and stays in place.
C3_WrittenOnce ==
  [][\A p \in AllPaths :
       /\ writes'[p] <= 1
       /\ (p \in exists /\ ~(pc = "write" /\ filename = p))
            => (p \in exists' /\ content'[p] = content[p])]_vars

\* a later run has gone over an identifier twice whose artifact an earlier
\* run wrote
C3_Witness ==
  /\ InData /\ pc = "return"
  /\ \E i \in Ids :
       /\ Len(SelectSeq(cas_ls, LAMBDA x : x = i)) = 2
       /\ ArtifactPath(params["Type"], i) \in first.exists
       /\ writes[ArtifactPath(params["Type"], i)] = 1

\* C4: a request call whose attempts all timed out has made exactly
\* max_retries attempts, yields None without raising, and scrap_data then
\* moves on without creating an artifact.
C4_TimeoutsExhaust ==
  [][(InData /\ AllTimeouts)
      => /\ Len(outcomes) <= max_retries
         /\ pc \in {"while", "check"}
         /\ (pc = "check" =>
               /\ Len(outcomes) = max_retries
               /\ response.none
               /\ pc' \in {"check", "for"}
               /\ exists' = exists /\ num_created' = num_created)]_vars

\* three timeouts in a row, the call has returned
C4_Witness ==
  InData /\ pc = "check" /\ outcomes = <<"timeout", "timeout", "timeout">>

\* C5: a non-timeout request error ends the request call at once: it is the
\* last attempt, no delay follows it (the delays are those of the timeouts
\* before it, none when it is the first attempt), the call yields None and
\* scrap_data moves on without creating an artifact.
C5_ErrorEndsCall ==
  [][(InData /\ HasError)
      => /\ pc = "check"
         /\ outcomes[Len(outcomes)] = "error"
         /\ \A i \in 1..(Len(outcomes) - 1) : outcomes[i] = "timeout"
         /\ sleeps = Len(outcomes) - 1
         /\ response.none
         /\ outcomes' \in {outcomes, <<>>}
         /\ pc' \in {"check", "for"}
         /\ exists' = exists /\ num_created' = num_created]_vars

\* an error on the first attempt: one attempt, no delay
C5_Witness ==
  InData /\ pc = "check" /\ outcomes = <<"error">> /\ sleeps = 0

\* C6: a response whose body is the not-found sentinel creates no artifact
\* and is not counted.
C6_SentinelNotStored ==
  [][(InData /\ pc = "check" /\ ~response.none
        /\ response.content = Bytes(NotFoundText))
      => /\ exists' = exists /\ content' = content /\ writes' = writes
         /\ num_created' = num_created
         /\ pc' \in {"check", "for"}]_vars

\* the sentinel has come back for an identifier and the loop has moved on
C6_Witness ==
  /\ InData /\ pc = "for" /\ idx > 1
  /\ res[cas_ls[idx - 1]] = {"sentinel"}
  /\ ArtifactPath(params["Type"], cas_ls[idx - 1]) \notin exists

\* C7: when scrap_data returns from a run that started with no artifact of
\* its category, the artifacts of the category are exactly those of the
\* identifiers a non-sentinel body was returned for, each at
\* <root>/<category lower-cased>/<identifier>.jdx and holding that body, which
\* is the one served for the key "C" + identifier; num_created is the number
\* of artifacts the run created.
Category == {ArtifactPath(params["Type"], i) : i \in Ids}
C7_ArtifactsAreResponses ==
  (InData /\ pc = "return" /\ first.exists \cap Category = {})
    => /\ exists \cap Category
            = {ArtifactPath(params["Type"], i) : i \in {j \in Ids : got[j] # {}}}
       /\ exists \ first.exists \subseteq Category
       /\ \A i \in Ids : got[i] # {} =>
            /\ got[i] = {content[ArtifactPath(params["Type"], i)]}
            /\ KeyOf(content[ArtifactPath(params["Type"], i)]) = <<"C", i>>
       /\ num_created = Cardinality(exists \ first.exists)

\* the scenario of the spec: 64175 yields a payload, 67630 the sentinel
C7_Witness ==
  /\ InData /\ pc = "return" /\ first.exists = {}
  /\ cas_ls = <<"64175", "67630">> /\ params["Type"] = "IR"
  /\ res["64175"] = {"artifact"} /\ res["67630"] = {"sentinel"}
  /\ exists = {<<"data", "ir", "64175", ".jdx">>}
  /\ num_created = 1

\* the running call repeats the last completed scrap_data run (same list,
\* same category), in which one identifier yielded an artifact and another
\* one the not-found sentinel
YieldedArtifact(i) == "artifact" \in prev.res[i]
YieldedSentinel(i) == prev.res[i] = {"sentinel"}
Rerun ==
  /\ InData /\ runs = 2 /\ cas_ls = prev.ls /\ params["Type"] = prev.type
  /\ \E a, b \in Ids : a # b /\ YieldedArtifact(a) /\ YieldedSentinel(b)

\* C8 as stated: the re-run makes no network call at all and creates no
\* artifact.
C8_RerunMakesNoCall ==
  Rerun => (called = {} /\ exists = first.exists)

\* C8 as amended: the re-run makes no network call for the identifier that
\* yielded an artifact, which it skips; it calls the network again for the
\* identifier that yielded the sentinel, and creates an artifact for it
\* exactly if a non-sentinel body now comes back.
C8_RerunSkipsOnlyArtifacts ==
  Rerun =>
    /\ \A a \in Ids : YieldedArtifact(a) =>
         (a \notin called /\ res[a] \subseteq {"skipped"})
    /\ pc = "return" =>
         \A b \in Ids : YieldedSentinel(b) =>
           /\ b \in called
           /\ (ArtifactPath(prev.type, b) \in exists) = (got[b] # {})
    /\ exists \ first.exists \subseteq
         {ArtifactPath(prev.type, b) : b \in {i \in Ids : YieldedSentinel(i)}}

\* the re-run has returned after asking the network again about the
\* identifier that had yielded the sentinel
C8_Witness ==
  /\ Rerun /\ pc = "return"
  /\ \E b \in Ids : YieldedSentinel(b) /\ b \in called /\ res[b] = {"sentinel"}
  /\ exists = first.exists

\* C9: every invocation of scrap_inchi, however it ends, has appended to what
\* inchi.txt held one header row and then one row per identifier of the list,
\* in list order.
InchiEnded == fn = "scrap_inchi" /\ pc \in {"return", "raised"}
C9_InchiAppendsAllRows ==
  InchiEnded =>
    /\ Len(inchi) = Len(first.inchi) + 1 + Len(cas_ls)
    /\ SubSeq(inchi, 1, Len(first.inchi)) = first.inchi
    /\ inchi[Len(first.inchi) + 1] = <<"cas_id", "inchi">>
    /\ \A k \in 1..Len(cas_ls) : inchi[Len(first.inchi) + 1 + k][1] = cas_ls[k]

\* C10: in an execution of the script no pass is left by an exception: a
\* network failure for one identifier stops neither the pass it occurs in nor
\* the passes after it.
C10_BatchRunsToCompletion ==
  main # "none" => pc # "raised"

\* C11: with the input table missing, the script goes no further than its
\* assert: no directory, log file or artifact is created, no handler is
\* attached and no network call is made.
C11_MissingTableAbortsFirst ==
  [][~cas_file =>
       /\ pc \in {"idle", "assert", "raised"}
       /\ out_dirs' = out_dirs /\ log_files' = log_files
       /\ handlers' = handlers
       /\ exists' = exists /\ inchi' = inchi
       /\ called' = called]_vars

\* the script has aborted on the missing table, the output directory is
\* still missing
C11_Witness ==
  /\ ~cas_file /\ main = "startup" /\ pc = "raised"
  /\ data_dir \notin out_dirs /\ log_files = {}

\* C17: from a root logger without handlers, every call of set_logger that
\* returns leaves exactly one file handler and one stream handler, and once
\* both are there no call changes the handler list.
HandlerKinds == [i \in DOMAIN handlers |-> handlers[i].kind]
C17_SetLoggerIdempotent ==
  [][/\ HandlerKinds \in {<<>>, <<"FileHandler">>, <<"FileHandler", "StreamHandler">>}
     /\ (fn = "set_logger" /\ pc = "return")
          => HandlerKinds = <<"FileHandler", "StreamHandler">>
     /\ Len(handlers) = 2 => handlers' = handlers]_vars

\* a second call has returned and the two handlers of the first are there
C17_Witness ==
  /\ fn = "set_logger" /\ pc = "return" /\ runs = 2
  /\ HandlerKinds = <<"FileHandler", "StreamHandler">>

\* C18: with the input table in place the start of the script raises nothing:
\* the directory is made, set_logger is called and returns, the table is
\* loaded.
C18_StartupCompletes ==
  (cas_file /\ main = "startup") => pc # "raised"

\* C12: every destination file that exists, the one being written by the
\* running iteration apart, holds a complete payload of the server, also
\* after the process was terminated or a write failed.
Complete(body) == body \in UNION {Bodies(LookupKey(i)) \ {Bytes(NotFoundText)} : i \in Ids}
BeingWritten(p) == fn = "scrap_data" /\ pc = "write" /\ p = filename
C12_ExistingFileComplete ==
  \A p \in exists : BeingWritten(p) \/ Complete(content[p])

\* C13: when a call of make_request_with_retry has ended, it has slept once
\* per re-attempt, that is once less than it has made attempts: no delay
\* follows the last attempt.
C13_DelaysBetweenAttempts ==
  (InData /\ pc = "check") => sleeps = Len(outcomes) - 1

\* C14 as stated: with the iterations of one pass run side by side and no
\* locking, no destination is written twice and every artifact holds the
\* payload of its own identifier.
OwnPath(i) == ArtifactPath(params["Type"], cas_ls[i])
OwnKey(p) == <<"C", p[3]>>
Stored(p) == p \in exists /\ content[p] # <<>>
C14_IterationsIndependent ==
  pc = "par" =>
    /\ \A p \in AllPaths : writes[p] <= 1
    /\ \A p \in AllPaths : Stored(p) => KeyOf(content[p]) = OwnKey(p)

\* C14 amended: an iteration writes only the destination of its own
\* identifier, so a destination is written at most once per occurrence of its
\* identifier in the list (once when the identifiers are distinct); the
\* lookup key travels in the shared mapping, so what an artifact holds is a
\* payload of some identifier of the list, its own or another's.
Occurrences(p) == Cardinality({i \in DOMAIN it : OwnPath(i) = p})
C14_SharedMappingAndDuplicates ==
  pc = "par" =>
    /\ exists \subseteq {OwnPath(i) : i \in DOMAIN it}
    /\ \A p \in AllPaths : writes[p] <= Occurrences(p)
    /\ \A p \in AllPaths :
         Stored(p) => \E i \in DOMAIN it : KeyOf(content[p]) = <<"C", cas_ls[i]>>

\* two iterations for distinct identifiers have ended and an artifact holds
\* the payload of the other identifier
C14_Witness ==
  /\ pc = "par" /\ AllDone /\ Len(cas_ls) = 2 /\ cas_ls[1] # cas_ls[2]
  /\ \E p \in AllPaths : Stored(p) /\ KeyOf(content[p]) # OwnKey(p)

\* C15: in a scrap_data pass every request made for identifier c carries
\* JCAMP = "C" + c; no step of the pass adds a key to the mapping or changes
\* Type or Index; the step that skips an identifier leaves the mapping as it
\* is.
SkipStep == pc = "for" /\ pc' = "for" /\ idx' = idx + 1
C15_OnlyLookupKeyChanges ==
  [][InData =>
       /\ pc = "while" => params["JCAMP"] = <<"C", cas_ls[idx]>>
       /\ fn' = "scrap_data" =>
            /\ DOMAIN params' = DOMAIN params
            /\ params'["Type"] = params["Type"]
            /\ params'["Index"] = params["Index"]
       /\ SkipStep => params' = params]_vars

\* a request has been answered for the second identifier of a list whose
\* first was skipped, the mapping still holding the first key set before
C15_Witness ==
  /\ InData /\ pc = "check" /\ ~response.none /\ idx = 2
  /\ "skipped" \in res[cas_ls[1]] /\ cas_ls[1] # cas_ls[2]
  /\ params = [JCAMP |-> <<"C", cas_ls[2]>>, Type |-> params["Type"], Index |-> 0]

\* C16: a pass runs only when its toggle is enabled: no pass runs whose
\* toggle was given the value False on the command line, and a toggle left
\* at its default runs its pass exactly when the default is on.
PassOf(name) == CASE name = "scrap_InChi" -> main = "InChi" /\ fn = "scrap_inchi"
                  [] name = "scrap_IR" -> main = "IR" /\ fn = "scrap_data"
                  [] name = "scrap_MS" -> main = "MS" /\ fn = "scrap_data"
C16_ToggleDecidesPass ==
  \A name \in DOMAIN args :
    PassOf(name) => /\ args[name] # "False"
                    /\ args[name] = "<default>" => Defaults[name]

\* C19: train_test_generator(X, y, n_splits) yields exactly n_splits pairs
\* whenever the samples allow that many splits, and each pair divides the
\* sample indices into a training part and a validation part.
Partitions(pair, n) ==
  /\ pair.train \cup pair.val = Samples(n)
  /\ pair.train \cap pair.val = {}
C19_YieldsNSplitsPairs ==
  /\ kf.pc = "raised" => kf.n < kf.n_splits
  /\ kf.pc = "done" =>
       /\ Len(kf.yielded) = kf.n_splits
       /\ \A f \in DOMAIN kf.yielded : Partitions(kf.yielded[f], kf.n)
====
